---- MODULE Spec2Model ----
(***************************************************************************)
(* Model of src/src/object_detection_node.cpp: the tabletop object         *)
(* detector.  One thread runs main's loop; ros::spinOnce() dispatches the  *)
(* subscriber callback cloud_cb and the service handler seg_cb, and        *)
(* seg_cb's aggregation loop waitForCloudK calls ros::spinOnce() again.    *)
(*                                                                         *)
(* Units.  Coordinates are integers in 1/100 (centimetres).  Plane         *)
(* coefficients a, b, c, d are integers in 1/100.  A point-to-plane        *)
(* distance a*x + b*y + c*z + d is therefore an integer in 1/10000.        *)
(* The PCL algorithms the node calls are modelled by what their documented *)
(* contract computes on such integer clouds.                               *)
(***************************************************************************)
EXTENDS Integers, Sequences, FiniteSets, TLC

----------------------------------------------------------------------------
(* Bounds of the model. *)

\* frames aggregated by one request; seg_cb passes 15 (line 301)
K == 3
\* detect requests issued in one run
MaxRequests == 2
\* EuclideanClusterExtraction size limits; the node sets 50 and 25000
MinClusterSize == 2
MaxClusterSize == 3

(* Program constants, in model units. *)

\* pass.setFilterLimits (0.0, 1.0)
ZMin == 0
ZMax == 100
\* vg.setLeafSize (0.005f, ...), in 1/1000
LeafSize == 5
\* seg.setDistanceThreshold (0.02), in 1/10000
DistanceThreshold == 200
\* computeClusters(cloud_blobs, 0.04), in 1/100
ClusterTolerance == 4
\* double plane_distance_tolerance = 0.09, in 1/10000
plane_distance_tolerance == 900
\* double min_distance = 1000.0 and max_distance = -1000.0, in 1/10000
MinDistanceInit == 10000000
MaxDistanceInit == -10000000
\* the offsets added to the fitted coefficients, in 1/100
OffsetA == 10
OffsetB == 50
OffsetC == 10

----------------------------------------------------------------------------
(* Data: points, clouds, messages. *)

Pt(x, y, z) == [x |-> x, y |-> y, z |-> z]

Header(id) == [frame_id |-> id]

\* a default-constructed PointCloudT
EmptyCloud == [header |-> Header(""), points |-> <<>>]

\* a default-constructed sensor_msgs::PointCloud2
EmptyMsg == [header |-> Header(""), data |-> <<>>]

\* pcl::fromROSMsg: the cloud takes the message's header and its decoded points
fromROSMsg(msg) == [header |-> msg.header, points |-> msg.data]

\* pcl::toROSMsg: the message takes the cloud's header and its encoded points
toROSMsg(c) == [header |-> c.header, data |-> c.points]

\* cloud_ros.header.frame_id = cloud->header.frame_id
withFrameId(msg, id) == [msg EXCEPT !.header.frame_id = id]

\* PointCloud::operator+= : the right-hand points are appended, the header's
\* frame_id is kept.  With both sides the same buffer the cloud is doubled.
CloudAppend(a, b) == [a EXCEPT !.points = a.points \o b.points]

\* PointCloud::clear(): the points go, the header stays
CloudClear(c) == [c EXCEPT !.points = <<>>]

\* a default-constructed TabletopPerception::Response
DefaultRes ==
    [is_plane_found |-> FALSE,
     cloud_plane |-> EmptyMsg,
     cloud_plane_coef |-> <<0, 0, 0, 0>>,
     cloud_clusters |-> <<>>]

(* The frames the camera topic delivers. *)

\* a table patch at z = 0.50 with a 2-point object resting 3 cm above it
NearPoints ==
    << Pt(0, 0, 50), Pt(4, 0, 50), Pt(0, 4, 50),
       Pt(0, 0, 53), Pt(1, 0, 53) >>

\* no table: a 3-point object far from the table, a stray point, a point
\* beyond the range limit and a 4-point object
FarPoints ==
    << Pt(0, 20, 60), Pt(1, 20, 60), Pt(2, 20, 60),
       Pt(30, 30, 70), Pt(0, 0, 150),
       Pt(20, 40, 80), Pt(21, 40, 80), Pt(22, 40, 80), Pt(23, 40, 80) >>

FrameSet ==
    { [header |-> Header("cam_a"), data |-> NearPoints],
      [header |-> Header("cam_b"), data |-> FarPoints] }

----------------------------------------------------------------------------
(* The PCL filters of step 1. *)

\* the elements of a sequence at the indices of I, from index i on, in order
RECURSIVE SubSeqAt(_, _, _)
SubSeqAt(s, I, i) ==
    CHOOSE out \in
        { IF k > Len(t) THEN <<>>
          ELSE (IF k \in J THEN <<t[k]>> ELSE <<>>) \o SubSeqAt(t, J, k + 1) :
            t \in {s}, J \in {I}, k \in {i} } : TRUE

\* pcl::PassThrough on "z" with limits [ZMin, ZMax]
PassThrough(points) ==
    SubSeqAt(points,
             {i \in DOMAIN points : points[i].z >= ZMin /\ points[i].z <= ZMax}, 1)

\* the voxel of a point: floor(coordinate / leaf size), per axis
VoxelOf(p) ==
    << (p.x * 10) \div LeafSize, (p.y * 10) \div LeafSize, (p.z * 10) \div LeafSize >>

\* VoxelGrid orders its output by voxel index: z major, then y, then x
VoxelLess(u, v) ==
    \/ u[3] < v[3]
    \/ u[3] = v[3] /\ u[2] < v[2]
    \/ u[3] = v[3] /\ u[2] = v[2] /\ u[1] < v[1]

\* a voxel put at its place in a sorted sequence of voxels
RECURSIVE InsertVoxel(_, _)
InsertVoxel(sorted, v) ==
    CHOOSE out \in
        { IF s = <<>> THEN <<w>>
          ELSE IF VoxelLess(w, s[1]) THEN <<w>> \o s
          ELSE <<s[1]>> \o InsertVoxel(Tail(s), w) :
            s \in {sorted}, w \in {v} } : TRUE

RECURSIVE SortVoxels(_)
SortVoxels(S) ==
    CHOOSE out \in
        { IF T = {} THEN <<>>
          ELSE InsertVoxel(SortVoxels(T \ {CHOOSE u \in T : TRUE}),
                           CHOOSE u \in T : TRUE) : T \in {S} } : TRUE

RECURSIVE SumCoord(_, _)
SumCoord(points, f) ==
    CHOOSE out \in
        { IF ps = <<>> THEN 0 ELSE ps[1][f] + SumCoord(Tail(ps), f) :
            ps \in {points} } : TRUE

\* the centroid of the points of one voxel
Centroid(points) ==
    CHOOSE out \in
        { Pt(SumCoord(ps, "x") \div Len(ps),
             SumCoord(ps, "y") \div Len(ps),
             SumCoord(ps, "z") \div Len(ps)) : ps \in {points} } : TRUE

\* the centroids of the voxels of order, from index i on
RECURSIVE voxelCentroids(_, _, _)
voxelCentroids(points, order, i) ==
    CHOOSE out \in
        { IF k > Len(o) THEN <<>>
          ELSE <<Centroid(SubSeqAt(ps, {j \in DOMAIN ps : VoxelOf(ps[j]) = o[k]}, 1))>>
                   \o voxelCentroids(ps, o, k + 1) :
            ps \in {points}, o \in {order}, k \in {i} } : TRUE

\* pcl::VoxelGrid: one centroid per occupied voxel
VoxelGrid(points) ==
    CHOOSE out \in
        { voxelCentroids(ps, SortVoxels({VoxelOf(ps[i]) : i \in DOMAIN ps}), 1) :
            ps \in {points} } : TRUE

----------------------------------------------------------------------------
(* Step 2: plane fitting and the partition. *)

Abs(n) == IF n < 0 THEN -n ELSE n

\* pcl::pointToPlaneDistance(p, coefficients) = |a*x + b*y + c*z + d|
pointToPlaneDistance(p, c) ==
    Abs(c[1] * p.x + c[2] * p.y + c[3] * p.z + c[4] * 100)

\* the points within the distance threshold of a plane
InlierIndices(points, c) ==
    {i \in DOMAIN points : pointToPlaneDistance(points[i], c) < DistanceThreshold}

\* three points span a plane iff they are not collinear
Collinear(p, q, r) ==
    LET ux == q.x - p.x  uy == q.y - p.y  uz == q.z - p.z
        vx == r.x - p.x  vy == r.y - p.y  vz == r.z - p.z
    IN  /\ uy * vz - uz * vy = 0
        /\ uz * vx - ux * vz = 0
        /\ ux * vy - uy * vx = 0

HasPlaneSample(points, I) ==
    \E i \in I, j \in I, k \in I : ~Collinear(points[i], points[j], points[k])

\* the plane hypotheses: the horizontal plane through each point
Hypotheses(points) == {<<0, 0, 100, -points[i].z>> : i \in DOMAIN points}

\* the hypothesis with the most inliers (of equal ones the lower plane);
\* no inliers and no coefficients when there is none
bestHypothesis(valid) ==
    IF valid = {}
    THEN [inliers |-> {}, values |-> <<>>]
    ELSE CHOOSE h \in valid : \A o \in valid :
            \/ Cardinality(h.inliers) > Cardinality(o.inliers)
            \/ /\ Cardinality(h.inliers) = Cardinality(o.inliers)
               /\ h.values[4] >= o.values[4]

\* SACSegmentation::segment with SACMODEL_PLANE and SAC_RANSAC (fixed seed):
\* a hypothesis counts when three of its inliers span a plane
segment(points) ==
    CHOOSE fit \in
        { bestHypothesis({h \in scored : HasPlaneSample(points, h.inliers)}) :
            scored \in {{ [inliers |-> InlierIndices(points, c), values |-> c] :
                            c \in Hypotheses(points) }} } : TRUE

\* pcl::ExtractIndices: the indexed points, or with setNegative(true) the others
ExtractIndices(points, indices, negative) ==
    SubSeqAt(points, IF negative THEN DOMAIN points \ indices ELSE indices, 1)

\* if(cloud_plane->empty())
NoPlaneFound(plane) == plane.points = <<>>

\* plane_coefficients(i) = coefficients->values[i] + offset
adjustCoefficients(values) ==
    << values[1] + OffsetA, values[2] + OffsetB, values[3] + OffsetC, values[4] >>

----------------------------------------------------------------------------
(* Step 3: cluster extraction, the crop box and the proximity filter. *)

Near(p, q, tol) ==
    (p.x - q.x) * (p.x - q.x) + (p.y - q.y) * (p.y - q.y)
        + (p.z - q.z) * (p.z - q.z) <= tol * tol

RECURSIVE Grow(_, _, _)
Grow(points, comp, tol) ==
    CHOOSE out \in
        { IF next = comp THEN comp ELSE Grow(points, next, tol) :
            next \in { c \cup {j \in DOMAIN points :
                                  \E i \in c : Near(points[i], points[j], tol)} :
                        c \in {comp} } } : TRUE

\* an extraction that keeps every component, whatever its size
RECURSIVE extractLoopNoLimits(_, _, _, _)
extractLoopNoLimits(points, tol, i, processed) ==
    CHOOSE out \in
        { IF k > Len(ps) THEN <<>>
          ELSE IF k \in done THEN extractLoopNoLimits(ps, tol, k + 1, done)
          ELSE CHOOSE rest \in
                 { <<comp>>
                       \o extractLoopNoLimits(ps, tol, k + 1, done \cup comp) :
                     comp \in {Grow(ps, {k}, tol)} } : TRUE :
            ps \in {points}, k \in {i}, done \in {processed} } : TRUE

\* extractEuclideanClusters: one component per unprocessed seed, kept when
\* its size is within the limits
RECURSIVE extractLoop(_, _, _, _)
extractLoop(points, tol, i, processed) ==
    CHOOSE out \in
        { IF k > Len(ps) THEN <<>>
          ELSE IF k \in done THEN extractLoop(ps, tol, k + 1, done)
          ELSE CHOOSE rest \in
                 { (IF Cardinality(comp) >= MinClusterSize
                    /\ Cardinality(comp) <= MaxClusterSize
                 THEN <<comp>> ELSE <<>>)
                       \o extractLoop(ps, tol, k + 1, done \cup comp) :
                     comp \in {Grow(ps, {k}, tol)} } : TRUE :
            ps \in {points}, k \in {i}, done \in {processed} } : TRUE

\* std::sort of the clusters, largest first (equal sizes keep their order)
RECURSIVE SortBySize(_)
SortBySize(cs) ==
    CHOOSE out \in
        { IF c = <<>> THEN <<>>
          ELSE LET m == CHOOSE i \in DOMAIN c :
                           /\ \A j \in DOMAIN c : Cardinality(c[j]) <= Cardinality(c[i])
                           /\ \A j \in 1..(i - 1) : Cardinality(c[j]) < Cardinality(c[i])
               IN  <<c[m]>> \o SortBySize(SubSeqAt(c, DOMAIN c \ {m}, 1)) :
            c \in {cs} } : TRUE

\* computeClusters: each extracted index set becomes a cloud of its points
computeClusters(in, tolerance) ==
    CHOOSE clusters_out \in
        { [j \in 1..Len(cluster_indices) |->
              [header |-> Header(""),
               points |-> SubSeqAt(in.points, cluster_indices[j], 1)]] :
            cluster_indices \in
                {SortBySize(extractLoop(in.points, tolerance, 1, {}))} } : TRUE

\* pcl::CropBox with setMin(0, 0, 0) and setMax(plane_coefficients)
CropBox(points, max) ==
    SubSeqAt(points,
             {i \in DOMAIN points :
                 /\ points[i].x >= 0 /\ points[i].y >= 0 /\ points[i].z >= 0
                 /\ points[i].x <= max[1] /\ points[i].y <= max[2]
                 /\ points[i].z <= max[3]}, 1)

\* the loop of filter(): the least and the greatest distance seen
RECURSIVE filterLoop(_, _, _, _, _)
filterLoop(points, coef, i, min_distance, max_distance) ==
    CHOOSE out \in
        { IF k > Len(points)
          THEN [min_distance |-> lo, max_distance |-> hi]
          ELSE CHOOSE r \in
                 { filterLoop(points, coef, k + 1,
                              IF distance < lo THEN distance ELSE lo,
                              IF distance > hi THEN distance ELSE hi) :
                     distance \in {pointToPlaneDistance(points[k], coef)} } : TRUE :
            k \in {i}, lo \in {min_distance}, hi \in {max_distance} } : TRUE

\* bool filter(blob, plane_coefficients, tolerance)
filter(blob, plane_coefficients, tolerance) ==
    LET r == filterLoop(blob.points, plane_coefficients, 1,
                        MinDistanceInit, MaxDistanceInit)
    IN  ~(r.min_distance > tolerance)

\* a loop that puts every cluster in the vector, whatever filter() returns
RECURSIVE touchingLoopKeepAll(_, _, _, _, _)
touchingLoopKeepAll(cs, coef, tol, i, acc) ==
    CHOOSE out \in
        { IF k > Len(cs) THEN a
          ELSE touchingLoopKeepAll(cs, coef, tol, k + 1,
                  [on_plane |-> Append(a.on_plane, cs[k]),
                   calls |-> Append(a.calls,
                                    [cluster |-> cs[k],
                                     accept |-> filter(cs[k], coef, tol)])]) :
            k \in {i}, a \in {acc} } : TRUE

\* the loop "if clusters are touching the table put them in a vector":
\* on_plane is clusters_on_plane, calls records each call of filter()
RECURSIVE touchingLoop(_, _, _, _, _)
touchingLoop(cs, coef, tol, i, acc) ==
    CHOOSE out \in
        { IF k > Len(cs) THEN a
          ELSE CHOOSE r \in
                 { touchingLoop(cs, coef, tol, k + 1,
                      [on_plane |-> IF accept THEN Append(a.on_plane, cs[k])
                                    ELSE a.on_plane,
                       calls |-> Append(a.calls,
                                        [cluster |-> cs[k], accept |-> accept])]) :
                     accept \in {filter(cs[k], coef, tol)} } : TRUE :
            k \in {i}, a \in {acc} } : TRUE

----------------------------------------------------------------------------
(* The node's state. *)

VARIABLES
    ros_ok,                    \* ros::ok()
    g_caught_sigint,           \* bool g_caught_sigint
    new_cloud_available_flag,  \* bool new_cloud_available_flag
    heap,                      \* the PointCloudT buffers the shared pointers own
    cloud,                     \* PointCloudT::Ptr cloud: the buffer it points to
    cloud_plane,               \* *cloud_plane
    cloud_blobs,               \* *cloud_blobs
    clusters_on_plane,         \* std::vector<PointCloudT::Ptr> clusters_on_plane
    cloud_ros,                 \* sensor_msgs::PointCloud2 cloud_ros
    cloud_mutex,               \* boost::mutex cloud_mutex
    pc,                        \* where the thread of main is
    stack,                     \* the seg_cb calls suspended in ros::spinOnce()
    counter,                   \* waitForCloudK: int counter
    cloud_filtered,            \* seg_cb: *cloud_filtered
    coefficients,              \* seg_cb: coefficients->values
    inliers,                   \* seg_cb: inliers->indices
    plane_coefficients,        \* seg_cb: Eigen::Vector4f plane_coefficients
    clusters,                  \* seg_cb: std::vector<PointCloudT::Ptr> clusters
    res,                       \* seg_cb: Response &res
    observed,                  \* history: the frames this request has counted
    filter_calls,              \* history: the calls of filter() in this request
    pubs,                      \* history: what this request gave to cloud_pub
    stages,                    \* history: the stages this request has entered
    nreq,                      \* history: the requests dispatched so far
    flag_stale,                \* history: the frame flagged as new was delivered
                               \* before this request's aggregation began
    f_blob, f_coef, f_tol, f_ret   \* one call of filter() on its own; f_ret holds its return value

vars ==
    << ros_ok, g_caught_sigint, new_cloud_available_flag, heap, cloud,
       cloud_plane, cloud_blobs, clusters_on_plane, cloud_ros, cloud_mutex,
       pc, stack, counter, cloud_filtered, coefficients, inliers,
       plane_coefficients, clusters, res, observed, filter_calls, pubs,
       stages, nreq, flag_stale, f_blob, f_coef, f_tol, f_ret >>

\* the variables of the node's globals that only the pipeline of seg_cb writes
pipelineGlobals == << cloud_plane, cloud_blobs, clusters_on_plane, cloud_ros >>

\* the locals of seg_cb after the aggregation
pipelineLocals ==
    << cloud_filtered, coefficients, inliers, plane_coefficients, clusters >>

filterVars == << f_blob, f_coef, f_tol, f_ret >>

\* the buffers allocated at lines 75 and 76
frame_buffer == "frame_buffer"
cloud_aggregated == "aggregate_buffer"

\* boost::mutex::lock and unlock; unlocking a mutex that nobody holds is
\* undefined: pthread_mutex_unlock leaves it unlocked, which is recorded
MutexLock(m) == [m EXCEPT !.locked = TRUE]
MutexUnlock(m) ==
    IF m.locked THEN [m EXCEPT !.locked = FALSE]
    ELSE [m EXCEPT !.unlocked_unheld = TRUE]

\* the stage of a detect request at each place of the code
StageOf(p) ==
    CASE p = "Idle" -> "Idle"
      [] p \in {"wait_head", "wait_spin"} -> "Aggregating"
      [] OTHER -> p

\* a seg_cb that builds the response right after cluster extraction
NextStageSkipFilter(p, plane_empty) ==
    CASE p = "Aggregating" -> "Filtering"
      [] p = "Filtering" -> "PlaneFitting"
      [] p = "PlaneFitting" -> IF plane_empty THEN "NoPlane" ELSE "Clustering"
      [] p = "Clustering" -> "Assembling"
      [] OTHER -> "return"

\* where seg_cb goes after a stage; a plane fit goes on by its outcome
NextStage(p, plane_empty) ==
    CASE p = "Aggregating" -> "Filtering"
      [] p = "Filtering" -> "PlaneFitting"
      [] p = "PlaneFitting" -> IF plane_empty THEN "NoPlane" ELSE "Clustering"
      [] p = "Clustering" -> "ProximityFiltering"
      [] p = "ProximityFiltering" -> "Assembling"
      [] OTHER -> "return"

InitNode ==
    /\ ros_ok = TRUE
    /\ g_caught_sigint = FALSE
    /\ new_cloud_available_flag = FALSE
    /\ heap = [b \in {frame_buffer, cloud_aggregated} |-> EmptyCloud]
    /\ cloud = frame_buffer
    /\ cloud_plane = EmptyCloud
    /\ cloud_blobs = EmptyCloud
    /\ clusters_on_plane = <<>>
    /\ cloud_ros = EmptyMsg
    /\ cloud_mutex = [locked |-> FALSE, unlocked_unheld |-> FALSE]
    /\ pc = "Idle"
    /\ stack = <<>>
    /\ counter = 0
    /\ cloud_filtered = EmptyCloud
    /\ coefficients = <<>>
    /\ inliers = {}
    /\ plane_coefficients = <<0, 0, 0, 0>>
    /\ clusters = <<>>
    /\ res = DefaultRes
    /\ observed = <<>>
    /\ filter_calls = <<>>
    /\ pubs = <<>>
    /\ stages = <<"Idle">>
    /\ nreq = 0
    /\ flag_stale = FALSE

Init ==
    /\ InitNode
    /\ f_blob = EmptyCloud
    /\ f_coef = <<0, 0, 0, 0>>
    /\ f_tol = 0
    /\ f_ret = <<>>

----------------------------------------------------------------------------
(* The callbacks that ros::spinOnce() dispatches, in main's loop (pc =      *)
(* "Idle") and in the loop of waitForCloudK (pc = "wait_spin").             *)

\* a waitForCloudK that never calls ros::spinOnce()
SpinningIdleOnly == ros_ok /\ pc = "Idle"

Spinning == ros_ok /\ pc \in {"Idle", "wait_spin"}

\* void cloud_cb(input)
cloud_cb ==
    /\ Spinning
    /\ \E input \in FrameSet :
          heap' = [heap EXCEPT ![cloud] = fromROSMsg(input)]
    /\ new_cloud_available_flag' = TRUE
    /\ flag_stale' = FALSE
    /\ cloud_mutex' = MutexUnlock(MutexLock(cloud_mutex))
    /\ UNCHANGED << ros_ok, g_caught_sigint, cloud, pipelineGlobals, pc, stack,
                    counter, pipelineLocals, res, observed, filter_calls, pubs,
                    stages, nreq, filterVars >>

\* seg_cb is dispatched with a fresh response and enters waitForCloudK(K):
\* cloud_aggregated->clear(); int counter = 0
seg_cb_begin ==
    /\ Spinning
    /\ nreq < MaxRequests
    /\ nreq' = nreq + 1
    /\ stack' = IF pc = "wait_spin"
                THEN Append(stack, [counter |-> counter, observed |-> observed,
                                    stale |-> flag_stale])
                ELSE stack
    /\ heap' = [heap EXCEPT ![cloud_aggregated] = CloudClear(@)]
    /\ counter' = 0
    /\ res' = DefaultRes
    /\ observed' = <<>>
    /\ filter_calls' = <<>>
    /\ pubs' = <<>>
    /\ stages' = <<"Idle", "Aggregating">>
    /\ flag_stale' = new_cloud_available_flag
    /\ pc' = "wait_head"
    /\ UNCHANGED << ros_ok, g_caught_sigint, new_cloud_available_flag, cloud,
                    pipelineGlobals, cloud_mutex, pipelineLocals, filterVars >>

----------------------------------------------------------------------------
(* waitForCloudK *)

\* a loop that leaves one frame early
LoopExitEarly(n, k) == n >= k - 1

\* if (counter >= k)
LoopExit(n, k) == n >= k

\* a frame counted without the header copy at the k-th frame
countFrameNoHeader(h, cl, n, k) ==
    [h EXCEPT ![cloud_aggregated] = CloudAppend(@, h[cl])]

\* the body of "if (new_cloud_available_flag)": the aggregate buffer after
\* *cloud_aggregated += *cloud and, at the k-th frame, the header copy
countFrame(h, cl, n, k) ==
    LET appended == [h EXCEPT ![cloud_aggregated] = CloudAppend(@, h[cl])]
    IN  IF LoopExit(n + 1, k)
        THEN [appended EXCEPT ![cloud_aggregated].header = appended[cl].header]
        ELSE appended

\* while (ros::ok())
waitForCloudK_head ==
    /\ pc = "wait_head"
    /\ pc' = IF ros_ok THEN "wait_spin" ELSE NextStage("Aggregating", FALSE)
    /\ stages' = IF ros_ok THEN stages ELSE Append(stages, StageOf(pc'))
    /\ UNCHANGED << ros_ok, g_caught_sigint, new_cloud_available_flag, heap,
                    cloud, pipelineGlobals, cloud_mutex, stack, counter,
                    pipelineLocals, res, observed, filter_calls, pubs, nreq, filterVars, flag_stale >>

\* ros::spinOnce() has returned; r.sleep(); if (new_cloud_available_flag) ...
waitForCloudK_poll ==
    /\ pc = "wait_spin"
    /\ IF new_cloud_available_flag
       THEN /\ heap' = countFrame(heap, cloud, counter, K)
            /\ new_cloud_available_flag' = FALSE
            /\ flag_stale' = FALSE
            /\ counter' = counter + 1
            /\ observed' = Append(observed, heap[cloud])
            /\ pc' = IF LoopExit(counter + 1, K)
                     THEN NextStage("Aggregating", FALSE) ELSE "wait_head"
       ELSE /\ pc' = "wait_head"
            /\ UNCHANGED << heap, new_cloud_available_flag, counter, observed,
                            flag_stale >>
    /\ stages' = IF StageOf(pc') = "Aggregating" THEN stages
                 ELSE Append(stages, StageOf(pc'))
    /\ UNCHANGED << ros_ok, g_caught_sigint, cloud, pipelineGlobals,
                    cloud_mutex, stack, pipelineLocals, res, filter_calls,
                    pubs, nreq, filterVars >>

----------------------------------------------------------------------------
(* seg_cb after the aggregation *)

\* the frame_id every outgoing cloud is given: cloud->header.frame_id
cloudFrameId(h, cl) == h[cl].header.frame_id

\* "for debugging purposes": cloud_blobs->clear() and the accepted clusters
\* appended to it one after the other
RECURSIVE debugCloud(_, _)
debugCloud(blobs, on_plane) ==
    IF on_plane = <<>> THEN blobs
    ELSE debugCloud(CloudAppend(blobs, on_plane[1]), Tail(on_plane))

\* the accepted clusters appended to the foreground cloud as it is
accumulateClustersNoClear(blobs, on_plane) == debugCloud(blobs, on_plane)

accumulateClusters(blobs, on_plane) == debugCloud(CloudClear(blobs), on_plane)

\* "fill in responses": the plane cloud, the coefficients and the clusters
fillResponse(plane, coef, on_plane, id) ==
    [is_plane_found |-> TRUE,
     cloud_plane |-> withFrameId(toROSMsg(plane), id),
     cloud_plane_coef |-> coef,
     cloud_clusters |-> [i \in 1..Len(on_plane) |->
                            withFrameId(toROSMsg(on_plane[i]), id)]]

\* cloud = cloud_aggregated; the z filter, in place; the voxel grid
seg_cb_filtering ==
    /\ pc = "Filtering"
    /\ cloud' = cloud_aggregated
    /\ heap' = [heap EXCEPT ![cloud_aggregated].points = PassThrough(@)]
    /\ cloud_filtered' = [header |-> heap'[cloud'].header,
                          points |-> VoxelGrid(heap'[cloud'].points)]
    /\ pc' = NextStage("Filtering", FALSE)
    /\ stages' = Append(stages, StageOf(pc'))
    /\ UNCHANGED << ros_ok, g_caught_sigint, new_cloud_available_flag,
                    pipelineGlobals, cloud_mutex, stack, counter, coefficients,
                    inliers, plane_coefficients, clusters, res, observed,
                    filter_calls, pubs, nreq, filterVars, flag_stale >>

\* the plane fit, the plane cloud; when it is not empty also the
\* foreground cloud, its publication and the adjusted coefficients
seg_cb_plane_fitting ==
    /\ pc = "PlaneFitting"
    /\ \E fit \in {segment(cloud_filtered.points)} :
          /\ inliers' = fit.inliers
          /\ coefficients' = fit.values
          /\ cloud_plane' = [header |-> cloud_filtered.header,
                             points |-> ExtractIndices(cloud_filtered.points,
                                                       fit.inliers, FALSE)]
          /\ pc' = NextStage("PlaneFitting", NoPlaneFound(cloud_plane'))
          /\ IF pc' = "NoPlane"
             THEN UNCHANGED << cloud_blobs, cloud_ros, pubs, plane_coefficients >>
             ELSE /\ cloud_blobs' =
                        [header |-> cloud_filtered.header,
                         points |-> ExtractIndices(cloud_filtered.points,
                                                   fit.inliers, TRUE)]
                  /\ cloud_ros' = withFrameId(toROSMsg(cloud_blobs'),
                                              cloudFrameId(heap, cloud))
                  /\ pubs' = Append(pubs, cloud_ros')
                  /\ plane_coefficients' = adjustCoefficients(fit.values)
    /\ stages' = Append(stages, StageOf(pc'))
    /\ UNCHANGED << ros_ok, g_caught_sigint, new_cloud_available_flag, heap,
                    cloud, clusters_on_plane, cloud_mutex, stack, counter,
                    cloud_filtered, clusters, res, observed, filter_calls,
                    nreq, filterVars, flag_stale >>

\* an empty plane cloud answered with is_plane_found = true
seg_cb_no_plane_found ==
    /\ pc = "NoPlane"
    /\ res' = [res EXCEPT !.is_plane_found = TRUE]
    /\ pc' = NextStage("NoPlane", TRUE)
    /\ UNCHANGED << ros_ok, g_caught_sigint, new_cloud_available_flag, heap,
                    cloud, pipelineGlobals, cloud_mutex, stack, counter,
                    pipelineLocals, observed, filter_calls, pubs, stages,
                    nreq, filterVars, flag_stale >>

\* res.is_plane_found = false; return true
seg_cb_no_plane ==
    /\ pc = "NoPlane"
    /\ res' = [res EXCEPT !.is_plane_found = FALSE]
    /\ pc' = NextStage("NoPlane", TRUE)
    /\ UNCHANGED << ros_ok, g_caught_sigint, new_cloud_available_flag, heap,
                    cloud, pipelineGlobals, cloud_mutex, stack, counter,
                    pipelineLocals, observed, filter_calls, pubs, stages,
                    nreq, filterVars, flag_stale >>

\* computeClusters, clusters_on_plane.clear(), the crop box into cloud_plane
seg_cb_clustering ==
    /\ pc = "Clustering"
    /\ clusters' = computeClusters(cloud_blobs, ClusterTolerance)
    /\ clusters_on_plane' = <<>>
    /\ cloud_plane' = [header |-> cloud_filtered.header,
                       points |-> CropBox(cloud_filtered.points,
                                          plane_coefficients)]
    /\ pc' = NextStage("Clustering", FALSE)
    /\ stages' = Append(stages, StageOf(pc'))
    /\ UNCHANGED << ros_ok, g_caught_sigint, new_cloud_available_flag, heap,
                    cloud, cloud_blobs, cloud_ros, cloud_mutex, stack, counter,
                    cloud_filtered, coefficients, inliers, plane_coefficients,
                    res, observed, filter_calls, pubs, nreq, filterVars, flag_stale >>

\* the loop over clusters that calls filter()
seg_cb_proximity_filtering ==
    /\ pc = "ProximityFiltering"
    /\ LET r == touchingLoop(clusters, plane_coefficients,
                             plane_distance_tolerance, 1,
                             [on_plane |-> clusters_on_plane,
                              calls |-> filter_calls])
       IN  /\ clusters_on_plane' = r.on_plane
           /\ filter_calls' = r.calls
    /\ pc' = NextStage("ProximityFiltering", FALSE)
    /\ stages' = Append(stages, StageOf(pc'))
    /\ UNCHANGED << ros_ok, g_caught_sigint, new_cloud_available_flag, heap,
                    cloud, cloud_plane, cloud_blobs, cloud_ros, cloud_mutex,
                    stack, counter, pipelineLocals, res, observed, pubs, nreq, filterVars, flag_stale >>

\* the response, cloud_mutex.unlock(), the debug cloud and its publication
seg_cb_assembling ==
    /\ pc = "Assembling"
    /\ res' = fillResponse(cloud_plane, plane_coefficients, clusters_on_plane,
                           cloudFrameId(heap, cloud))
    /\ cloud_mutex' = MutexUnlock(cloud_mutex)
    /\ cloud_blobs' = accumulateClusters(cloud_blobs, clusters_on_plane)
    /\ cloud_ros' = withFrameId(toROSMsg(cloud_blobs'), cloudFrameId(heap, cloud))
    /\ pubs' = Append(pubs, cloud_ros')
    /\ pc' = NextStage("Assembling", FALSE)
    /\ UNCHANGED << ros_ok, g_caught_sigint, new_cloud_available_flag, heap,
                    cloud, cloud_plane, clusters_on_plane, stack, counter,
                    pipelineLocals, observed, filter_calls, stages, nreq, filterVars, flag_stale >>

\* seg_cb returns true: the response is sent, the locals are gone, and the
\* thread is back in the ros::spinOnce() that dispatched the request
seg_cb_return ==
    /\ pc = "return"
    /\ IF stack = <<>>
       THEN /\ pc' = "Idle"
            /\ counter' = 0
            /\ observed' = <<>>
            /\ stages' = <<"Idle">>
            /\ stack' = stack
            /\ flag_stale' = FALSE
       ELSE /\ pc' = "wait_spin"
            /\ counter' = stack[Len(stack)].counter
            /\ observed' = stack[Len(stack)].observed
            /\ stages' = <<"Idle", "Aggregating">>
            /\ stack' = SubSeq(stack, 1, Len(stack) - 1)
            /\ flag_stale' = (flag_stale /\ stack[Len(stack)].stale)
    /\ cloud_filtered' = EmptyCloud
    /\ coefficients' = <<>>
    /\ inliers' = {}
    /\ plane_coefficients' = <<0, 0, 0, 0>>
    /\ clusters' = <<>>
    /\ res' = DefaultRes
    /\ filter_calls' = <<>>
    /\ pubs' = <<>>
    /\ UNCHANGED << ros_ok, g_caught_sigint, new_cloud_available_flag, heap,
                    cloud, pipelineGlobals, cloud_mutex, nreq, filterVars >>

----------------------------------------------------------------------------
(* The SIGINT handler, on whichever thread the signal is delivered to. *)

\* g_caught_sigint = true; ros::shutdown()
sig_handler ==
    /\ ~g_caught_sigint
    /\ g_caught_sigint' = TRUE
    /\ ros_ok' = FALSE
    /\ UNCHANGED << new_cloud_available_flag, heap, cloud, pipelineGlobals,
                    cloud_mutex, pc, stack, counter, pipelineLocals, res,
                    observed, filter_calls, pubs, stages, nreq,
                    filterVars, flag_stale >>

\* exit(1): the process is gone, and its memory with it
sig_exit ==
    /\ g_caught_sigint
    /\ pc # "exited"
    /\ pc' = "exited"
    /\ heap' = [b \in {frame_buffer, cloud_aggregated} |-> EmptyCloud]
    /\ cloud' = frame_buffer
    /\ new_cloud_available_flag' = FALSE
    /\ cloud_plane' = EmptyCloud
    /\ cloud_blobs' = EmptyCloud
    /\ clusters_on_plane' = <<>>
    /\ cloud_ros' = EmptyMsg
    /\ cloud_mutex' = [locked |-> FALSE, unlocked_unheld |-> FALSE]
    /\ stack' = <<>>
    /\ counter' = 0
    /\ cloud_filtered' = EmptyCloud
    /\ coefficients' = <<>>
    /\ inliers' = {}
    /\ plane_coefficients' = <<0, 0, 0, 0>>
    /\ clusters' = <<>>
    /\ res' = DefaultRes
    /\ observed' = <<>>
    /\ filter_calls' = <<>>
    /\ pubs' = <<>>
    /\ stages' = <<>>
    /\ flag_stale' = FALSE
    /\ UNCHANGED << ros_ok, g_caught_sigint, nreq, filterVars >>

Next ==
    \/ cloud_cb
    \/ seg_cb_begin
    \/ waitForCloudK_head
    \/ waitForCloudK_poll
    \/ seg_cb_filtering
    \/ seg_cb_plane_fitting
    \/ seg_cb_no_plane
    \/ seg_cb_clustering
    \/ seg_cb_proximity_filtering
    \/ seg_cb_assembling
    \/ seg_cb_return
    \/ sig_handler
    \/ sig_exit

Spec == Init /\ [][Next]_vars

\* the steps of the thread of main inside a detect request
requestStep ==
    \/ waitForCloudK_head
    \/ waitForCloudK_poll
    \/ seg_cb_filtering
    \/ seg_cb_plane_fitting
    \/ seg_cb_no_plane
    \/ seg_cb_clustering
    \/ seg_cb_proximity_filtering
    \/ seg_cb_assembling
    \/ seg_cb_return

\* the node while it keeps running: no SIGINT arrives
NextRunning == cloud_cb \/ seg_cb_begin \/ requestStep

\* the thread of main keeps running its code, and the camera topic keeps
\* delivering: a ros::spinOnce() that is reached again and again dispatches
\* cloud_cb again and again
SpecLive ==
    /\ Init
    /\ [][NextRunning]_vars
    /\ WF_vars(requestStep)
    /\ SF_vars(cloud_cb)

----------------------------------------------------------------------------
(* filter() on its own: one call on a cluster, a plane and a tolerance. *)

FilterBlobs ==
    { [header |-> Header(""), points |-> ps] : ps \in
        { <<>>,
          << Pt(5, 0, 45) >>,
          << Pt(0, 0, 53), Pt(1, 0, 53) >>,
          << Pt(0, 20, 60), Pt(1, 20, 60), Pt(2, 20, 60) >>,
          << Pt(30, 30, 70), Pt(5, 0, 45), Pt(0, 0, 100000) >>,
          << Pt(0, 0, 100000) >>,
          << Pt(0, 0, 100000), Pt(0, 0, 120000) >> } }

FilterPlanes ==
    { adjustCoefficients(<<0, 0, 100, -50>>),
      adjustCoefficients(<<0, 0, 100, -60>>),
      <<0, 0, 100, -50>> }

FilterTolerances == {0, 830, plane_distance_tolerance, MinDistanceInit}

InitFilter ==
    /\ InitNode
    /\ f_blob \in FilterBlobs
    /\ f_coef \in FilterPlanes
    /\ f_tol \in FilterTolerances
    /\ f_ret = <<>>

filter_call ==
    /\ f_ret = <<>>
    /\ f_ret' = << filter(f_blob, f_coef, f_tol) >>
    /\ UNCHANGED << ros_ok, g_caught_sigint, new_cloud_available_flag, heap,
                    cloud, pipelineGlobals, cloud_mutex, pc, stack, counter,
                    pipelineLocals, res, observed, filter_calls, pubs, stages,
                    nreq, flag_stale, f_blob, f_coef, f_tol >>

NextFilter == filter_call

SpecFilter == InitFilter /\ [][NextFilter]_vars

----------------------------------------------------------------------------
(* The properties. *)

Range(s) == {s[i] : i \in DOMAIN s}

IsPrefix(s, t) == Len(s) <= Len(t) /\ s = SubSeq(t, 1, Len(s))

\* the points of a sequence of frames, one frame after the other
RECURSIVE ConcatPoints(_)
ConcatPoints(frames) ==
    IF frames = <<>> THEN <<>>
    ELSE frames[1].points \o ConcatPoints(Tail(frames))

\* the request has counted K frames and is past the aggregation
CountedK ==
    /\ counter = K
    /\ pc \in {"Filtering", "PlaneFitting", "NoPlane", "Clustering",
               "ProximityFiltering", "Assembling", "return"}

\* C1: when waitForCloudK(15) has counted its frames, cloud_aggregated holds
\* exactly the points of the 15 frames observed during that request, one
\* frame after the other, and nothing else.
C1_AggregateIsObservedFrames ==
    (pc = "Filtering" /\ counter = K) =>
        /\ Len(observed) = K
        /\ heap[cloud_aggregated].points = ConcatPoints(observed)

\* C2: when a plane is found, the cloud_plane_coef of the response are the
\* four coefficients the plane fit returned.
C2_ResponseHasFittedCoefficients ==
    (pc = "return" /\ res.is_plane_found) =>
        res.cloud_plane_coef = coefficients

\* the plane fit of the request is done
PlaneFitDone == "PlaneFitting" \in Range(stages) /\ pc # "PlaneFitting"

\* C3: whenever the plane fit of a request yields no inliers the request
\* goes to NoPlane and returns a response with is_plane_found = false, no
\* clusters and the plane cloud and coefficients at their defaults, and
\* neither cluster extraction nor the proximity filter is run, nor anything
\* published, whatever earlier requests left behind.
C3_EmptyFitEndsWithoutPlane ==
    (PlaneFitDone /\ inliers = {}) =>
        /\ pc \in {"NoPlane", "return"}
        /\ ~res.is_plane_found
        /\ pc = "return" => res = DefaultRes
        /\ clusters = <<>>
        /\ filter_calls = <<>>
        /\ pubs = <<>>
        /\ Range(stages) \cap {"Clustering", "ProximityFiltering", "Assembling"} = {}

C3_Witness ==
    /\ pc = "return"
    /\ PlaneFitDone
    /\ inliers = {}
    /\ clusters_on_plane # <<>>
    /\ cloud_ros.data # <<>>

\* filter() on a cluster of the request with the adjusted coefficients
AcceptedByFilter(c) == filter(c, plane_coefficients, plane_distance_tolerance)

\* C4: the cloud_clusters of a plane-found response are, in the order of
\* extraction, exactly the clusters for which filter(cluster, adjusted
\* coefficients, plane_distance_tolerance) returns true.
C4_ClustersAreAcceptedSubsequence ==
    (pc = "return" /\ res.is_plane_found) =>
        LET accepted == SelectSeq(clusters, AcceptedByFilter)
        IN  /\ Len(res.cloud_clusters) = Len(accepted)
            /\ \A i \in DOMAIN accepted :
                  res.cloud_clusters[i].data = accepted[i].points
            /\ clusters_on_plane = accepted

C4_Witness ==
    /\ pc = "return"
    /\ res.is_plane_found
    /\ \E i \in DOMAIN clusters : AcceptedByFilter(clusters[i])
    /\ \E i \in DOMAIN clusters : ~AcceptedByFilter(clusters[i])
    /\ Len(res.cloud_clusters) = 1

\* the smallest point-to-plane distance over the points of a cluster
MinPointDistance(blob, coef) ==
    CHOOSE d \in {pointToPlaneDistance(blob.points[i], coef) : i \in DOMAIN blob.points} :
        \A j \in DOMAIN blob.points : d <= pointToPlaneDistance(blob.points[j], coef)

\* C5: for a cluster with at least one point and a tolerance >= 0, filter()
\* returns true exactly when the smallest point-to-plane distance over the
\* cluster's points is at most the tolerance.
C5_FilterIffMinWithinTolerance ==
    (f_ret # <<>> /\ f_blob.points # <<>> /\ f_tol >= 0) =>
        (f_ret[1] <=> MinPointDistance(f_blob, f_coef) <= f_tol)

\* the two ways through a request
PathNoPlane == <<"Idle", "Aggregating", "Filtering", "PlaneFitting", "NoPlane">>

PathPlane ==
    <<"Idle", "Aggregating", "Filtering", "PlaneFitting", "Clustering",
      "ProximityFiltering", "Assembling">>

\* C6: the stages a request has been through are always the beginning of
\* Idle, Aggregating, Filtering, PlaneFitting, NoPlane or of Idle,
\* Aggregating, Filtering, PlaneFitting, Clustering, ProximityFiltering,
\* Assembling; a request that returns has been through the whole of one of
\* the two, and the thread is at the place of the last stage it entered.
C6_StagesInOrder ==
    /\ IsPrefix(stages, PathNoPlane) \/ IsPrefix(stages, PathPlane)
    /\ pc = "return" => stages \in {PathNoPlane, PathPlane}
    /\ pc \notin {"return", "exited"} => StageOf(pc) = stages[Len(stages)]

C6_Witness == pc = "return" /\ stages = PathPlane /\ nreq = MaxRequests

FreshResponse(frames) ==
    LET id == frames[Len(frames)].header.frame_id
        filtered == VoxelGrid(PassThrough(ConcatPoints(frames)))
        fit == segment(filtered)
        plane == [header |-> Header(id),
                  points |-> ExtractIndices(filtered, fit.inliers, FALSE)]
        blobs == [header |-> Header(id),
                  points |-> ExtractIndices(filtered, fit.inliers, TRUE)]
    IN  IF NoPlaneFound(plane) THEN DefaultRes
        ELSE LET coef == adjustCoefficients(fit.values)
                 r == touchingLoop(computeClusters(blobs, ClusterTolerance),
                                   coef, plane_distance_tolerance, 1,
                                   [on_plane |-> <<>>, calls |-> <<>>])
             IN  fillResponse([header |-> Header(id),
                               points |-> CropBox(filtered, coef)],
                              coef, r.on_plane, id)

\* C8: the response of a request is a function of the K frames it observed:
\* it is the response a node without earlier requests gives on these frames.
C8_ResponseDependsOnObservedFramesOnly ==
    (pc = "return" /\ counter = K /\ Len(observed) = K) =>
        res = FreshResponse(observed)

\* the points of a sequence of clusters, one cluster after the other
AcceptedPoints == ConcatPoints(clusters_on_plane)

\* C9: a request that finds a plane publishes exactly two messages, first
\* the foreground cloud (the points off the plane) before cluster
\* extraction, then the accepted clusters put together, after the response
\* is filled; a request that finds no plane publishes nothing.
C9_TwoPublicationsIffPlane ==
    /\ pc \in {"wait_head", "wait_spin", "Filtering", "PlaneFitting", "NoPlane"}
          => pubs = <<>>
    /\ pc \in {"Clustering", "ProximityFiltering", "Assembling"}
          => /\ Len(pubs) = 1
             /\ pubs[1].data = ExtractIndices(cloud_filtered.points, inliers, TRUE)
             /\ ~res.is_plane_found
    /\ pc = "return"
          => IF res.is_plane_found
             THEN /\ Len(pubs) = 2
                  /\ pubs[1].data = ExtractIndices(cloud_filtered.points, inliers, TRUE)
                  /\ pubs[2].data = AcceptedPoints
                  /\ pubs[2] = cloud_ros
             ELSE pubs = <<>>

C9_Witness ==
    /\ pc = "return"
    /\ res.is_plane_found
    /\ Len(pubs) = 2
    /\ pubs[2].data # <<>>
    /\ pubs[1].data # pubs[2].data

\* C10: after K frames are counted the aggregate has the frame_id of the
\* K-th frame counted, and the plane cloud, the clusters of the response and
\* the published clouds carry it.
C10_FrameIdOfLastFrame ==
    CountedK =>
        LET id == observed[K].header.frame_id
        IN  /\ heap[cloud_aggregated].header.frame_id = id
            /\ \A i \in DOMAIN pubs : pubs[i].header.frame_id = id
            /\ (pc = "return" /\ res.is_plane_found) =>
                  /\ res.cloud_plane.header.frame_id = id
                  /\ \A i \in DOMAIN res.cloud_clusters :
                        res.cloud_clusters[i].header.frame_id = id

C10_Witness ==
    /\ pc = "return"
    /\ counter = K
    /\ res.is_plane_found
    /\ res.cloud_clusters # <<>>
    /\ observed[1].header.frame_id # observed[K].header.frame_id

\* C11: every unlock of cloud_mutex is executed while the mutex is held by
\* the context that locked it: the mutex is never unlocked while unheld.
C11_UnlockOnlyWhenHeld == ~cloud_mutex.unlocked_unheld

\* the slot and the flag as a step leaves them, the end of the process aside
SlotWrittenOnlyByProducer ==
    /\ heap'[frame_buffer] # heap[frame_buffer] => cloud_cb
    /\ (~new_cloud_available_flag /\ new_cloud_available_flag') => cloud_cb

FlagClearedOnlyByPoll ==
    (new_cloud_available_flag /\ ~new_cloud_available_flag') => waitForCloudK_poll

\* C12: the latest-frame slot and the new-frame flag are written by cloud_cb
\* only and the flag is cleared by the polling loop only; no step of a
\* request rebinds the slot, which never refers to the aggregate's buffer.
C12_SlotOwnedByProducer ==
    [][ pc' # "exited" =>
          /\ cloud' = cloud
          /\ cloud' # cloud_aggregated
          /\ SlotWrittenOnlyByProducer
          /\ FlagClearedOnlyByPoll ]_vars

\* C13: every frame a request counts was delivered by cloud_cb after the
\* request's aggregation began: a flag left set before the request never
\* makes the loop count an older frame.
C13_CountsFreshFramesOnly ==
    [][ (new_cloud_available_flag /\ waitForCloudK_poll) => ~flag_stale ]_vars

\* C14: filter() on a cluster without points returns false, for every plane
\* and every tolerance.
C14_EmptyClusterRejected ==
    (f_ret # <<>> /\ f_blob.points = <<>>) => ~f_ret[1]

\* the foreground cloud of the request: the points off the plane
Foreground == ExtractIndices(cloud_filtered.points, inliers, TRUE)

WithinSizeLimits(n) == n >= MinClusterSize /\ n <= MaxClusterSize

\* the clusters of the request are there
ClustersComputed == pc \in {"ProximityFiltering", "Assembling", "return"}

\* C15: every cluster computeClusters returns, every cluster given to
\* filter() and every cluster of a response has between MinClusterSize and
\* MaxClusterSize points; no point of the foreground cloud is in two
\* clusters; a cluster is a whole component of the foreground cloud, so a
\* component outside the limits is in no cluster.
C15_ClustersWithinLimitsAndDisjoint ==
    /\ ClustersComputed =>
          /\ \A i \in DOMAIN clusters :
                /\ WithinSizeLimits(Len(clusters[i].points))
                /\ Range(clusters[i].points) \subseteq Range(Foreground)
                /\ \A q \in Range(Foreground) :
                      (\E p \in Range(clusters[i].points) : Near(p, q, ClusterTolerance))
                          => q \in Range(clusters[i].points)
          /\ \A i, j \in DOMAIN clusters :
                i # j => Range(clusters[i].points) \cap Range(clusters[j].points) = {}
    /\ \A i \in DOMAIN filter_calls :
          WithinSizeLimits(Len(filter_calls[i].cluster.points))
    /\ \A i \in DOMAIN clusters_on_plane :
          WithinSizeLimits(Len(clusters_on_plane[i].points))
    /\ \A i \in DOMAIN res.cloud_clusters :
          WithinSizeLimits(Len(res.cloud_clusters[i].data))

C15_Witness ==
    /\ pc = "return"
    /\ Len(clusters) >= 2
    /\ res.cloud_clusters # <<>>
    /\ \E q \in Range(Foreground) :
          \A i \in DOMAIN clusters : q \notin Range(clusters[i].points)

\* a detect request is in progress
InFlight == pc \notin {"Idle", "exited"}

\* the request has returned from one of its two last stages
Returned == pc = "return" /\ stages[Len(stages)] \in {"NoPlane", "Assembling"}

C17_OneRequestInFlight ==
    [][ InFlight => /\ nreq' = nreq
                    /\ stack' = <<>>
                    /\ (heap[cloud_aggregated].points # <<>>
                           => heap'[cloud_aggregated].points # <<>>) ]_vars

====
